---- MODULE Spec2Model ----
(***************************************************************************)
(* Model of the phased-session state machine of the orchestrator           *)
(* (src/mcp_server/session.py, src/main.py).                                *)
(*                                                                         *)
(* A text is the list of its lines, exactly as str.split('\n') returns it: *)
(* a non-empty sequence whose last element is the (possibly empty) text    *)
(* after the last newline.  A line is terminated by a newline iff it is    *)
(* not the last element.  The empty string is <<Blank>>.  Lines are        *)
(* records naming their shape and the tokens they carry; every regular     *)
(* expression of the source is translated to the line shapes it accepts.   *)
(***************************************************************************)
EXTENDS Integers, Sequences, FiniteSets, TLC

VARIABLES file, origin, ret, nlog, tasks, project, result, run, proc

vars == <<file, origin, ret, nlog, tasks, project, result, run, proc>>

(***************************************************************************)
(* Bounds of the model.                                                    *)
(***************************************************************************)
MaxPhases == 2
MaxNotes == 1
MaxArchive == 3
MaxAgents == 2
MaxIterations == 2
MaxRunArchive == 1

(***************************************************************************)
(* Lines.                                                                  *)
(***************************************************************************)
Line(k, n, t, a, d, x) == [k |-> k, n |-> n, t |-> t, a |-> a, d |-> d, x |-> x]

Blank == Line("blank", 0, 0, "", "", FALSE)
\* "# Session: <name>"
Title(name) == Line("title", 0, 0, name, "", FALSE)
\* "## <heading>"
Sec(h) == Line("sec", 0, 0, h, "", FALSE)
\* "- Phase: <p> of <t>"
PhaseOf(p, t) == Line("phaseof", p, t, "", "", FALSE)
\* "- Current Agent: <a>"
AgentLn(a) == Line("agent", 0, 0, a, "", FALSE)
\* "- State: <w>"
StateLn(w) == Line("state", 0, 0, w, "", FALSE)
\* "<n>. [x| ] <agent> - <description>"
PhaseLn(n, x, a, d) == Line("phase", n, 0, a, d, x)
\* "<n>. <text>": a numbered line that is not shaped like a phase
Item(n, d) == Line("item", n, 0, "", d, FALSE)
\* "### Phase <n> (<agent>)"
Entry(n, a) == Line("entry", n, 0, a, "", FALSE)
\* any other line of text
Txt(d) == Line("text", 0, 0, "", d, FALSE)

Empty == <<Blank>>
Placeholder == Txt("(agents will update this)")
NoFile == <<>>

Min(S) == CHOOSE i \in S : \A j \in S : i <= j
Max(S) == CHOOSE i \in S : \A j \in S : i >= j

(***************************************************************************)
(* parse_session                                                           *)
(***************************************************************************)
\* \s*\n after a heading: the first line after i that is not blank (0: none)
NextNonBlank(T, i) ==
    LET S == {j \in (i + 1)..Len(T) : T[j].k # "blank"}
    IN IF S = {} THEN 0 ELSE Min(S)

\* (?:<shape>\n)+ from line j: the last line of the run of newline-terminated
\* lines of that shape (j - 1: no such line)
RunEnd(T, j, shape) ==
    LET S == {m \in j..(Len(T) - 1) : \A q \in j..m : T[q].k \in shape}
    IN IF S = {} THEN j - 1 ELSE Max(S)

\* str.strip() at the end of a block: the trailing blank of the last line goes
RStrip(l) ==
    IF l = AgentLn("") THEN Txt("- Current Agent:")
    ELSE IF l = Title("") THEN Txt("# Session:")
    ELSE l

\* ## <h>\s*\n([\s\S]*?)(?=\n## |\Z), stripped
SectionBody(T, h) ==
    LET I == {i \in 1..(Len(T) - 1) : T[i] = Sec(h)}
    IN IF I = {} THEN Empty
       ELSE LET i == Min(I)
                j == NextNonBlank(T, i)
            IN IF j = 0 THEN Empty
               ELSE LET stops == {m \in j..(Len(T) - 1) : T[m + 1].k = "sec"}
                        m == IF stops = {} THEN Len(T) ELSE Min(stops)
                        e == Max({q \in j..m : T[q].k # "blank"})
                    IN Append(SubSeq(T, j, e - 1), RStrip(T[e]))

\* the kinds of line that match '- .+' and '\d+\. .+'
IsBullet == {"phaseof", "agent", "state"}
IsNumbered == {"phase", "item"}

\* ## <h>\s*\n((?:<shape>\n)+): the lines of the group (<<>>: no match)
SectionRun(T, h, shape) ==
    LET I == {i \in 1..Len(T) :
                /\ T[i] = Sec(h)
                /\ LET j == NextNonBlank(T, i)
                   IN j # 0 /\ j < Len(T) /\ T[j].k \in shape}
    IN IF I = {} THEN <<>>
       ELSE LET j == NextNonBlank(T, Min(I))
            IN SubSeq(T, j, RunEnd(T, j, shape))

ParseName(T) ==
    LET IsName(l) == l.k = "title" /\ l.a # ""
        S == SelectSeq(T, IsName)
    IN IF S = <<>> THEN "" ELSE S[1].a

PhaseRecord(l) ==
    [number |-> l.n, complete |-> l.x, agent |-> l.a, description |-> l.d]

ParsePhaseLines(G) ==
    LET IsPhase(l) == l.k = "phase"
        S == SelectSeq(G, IsPhase)
    IN [i \in 1..Len(S) |-> PhaseRecord(S[i])]

parse_session(T) ==
    LET status == SectionRun(T, "Status", IsBullet)
        IsPhaseOf(l) == l.k = "phaseof"
        IsAgent(l) == l.k = "agent" /\ l.a # ""
        IsState(l) == l.k = "state" /\ l.a # ""
        po == SelectSeq(status, IsPhaseOf)
        ag == SelectSeq(status, IsAgent)
        st == SelectSeq(status, IsState)
    IN [name |-> ParseName(T),
        phase |-> IF po = <<>> THEN 0 ELSE po[1].n,
        total_phases |-> IF po = <<>> THEN 0 ELSE po[1].t,
        current_agent |-> IF ag = <<>> THEN "" ELSE ag[1].a,
        state |-> IF st = <<>> THEN "unknown" ELSE st[1].a,
        user_request |-> SectionBody(T, "User Request"),
        phases |-> ParsePhaseLines(SectionRun(T, "Phases", IsNumbered)),
        work_log |-> SectionBody(T, "Work Log")]

(***************************************************************************)
(* format_session                                                          *)
(***************************************************************************)
FormatPhases(phases) ==
    IF phases = <<>> THEN Empty
    ELSE [i \in 1..Len(phases) |->
            PhaseLn(phases[i].number, phases[i].complete,
                    phases[i].agent, phases[i].description)]

format_session(s) ==
    <<Title(s.name), Blank,
      Sec("Status"), PhaseOf(s.phase, s.total_phases),
      AgentLn(s.current_agent), StateLn(s.state), Blank,
      Sec("User Request")>>
    \o s.user_request
    \o <<Blank, Sec("Phases")>>
    \o FormatPhases(s.phases)
    \o <<Blank, Sec("Work Log")>>
    \o (IF s.work_log = Empty THEN <<Placeholder>> ELSE s.work_log)
    \o <<Blank>>

(***************************************************************************)
(* The tool server's operations (src/mcp_server/session.py) as functions   *)
(* of the document.                                                        *)
(***************************************************************************)
\* for phase in session["phases"]: if phase["number"] == phase_number
FindPhase(phases, k) ==
    LET S == {i \in 1..Len(phases) : phases[i].number = k}
    IN IF S = {} THEN 0 ELSE Min(S)

\* for phase in session["phases"]: if not phase["complete"]
FirstIncomplete(phases) ==
    LET S == {i \in 1..Len(phases) : ~phases[i].complete}
    IN IF S = {} THEN 0 ELSE Min(S)

\* a slip that rewrites every flag: only the phase just marked stays checked
SetCompleteOnly(phases, i) ==
    [j \in 1..Len(phases) |-> [phases[j] EXCEPT !.complete = (j = i)]]

\* a slip that flips the flag instead of setting it
SetCompleteToggles(phases, i) == [phases EXCEPT ![i].complete = ~@]

SetComplete(phases, i) == [phases EXCEPT ![i].complete = TRUE]

\* a slip that counts one past the next phase
UpdateStatusOffByOne(s) ==
    LET np == FirstIncomplete(s.phases)
    IN IF np # 0
       THEN [s EXCEPT !.phase = s.phases[np].number + 1,
                      !.current_agent = s.phases[np].agent,
                      !.state = "pending"]
       ELSE [s EXCEPT !.state = "complete", !.current_agent = "none"]

\* a slip that clears the phase number once no phase is left
UpdateStatusClearsPhase(s) ==
    LET np == FirstIncomplete(s.phases)
    IN IF np # 0
       THEN [s EXCEPT !.phase = s.phases[np].number,
                      !.current_agent = s.phases[np].agent,
                      !.state = "pending"]
       ELSE [s EXCEPT !.phase = 0, !.state = "complete", !.current_agent = "none"]

\* a slip that names the last phase's agent once no phase is left
UpdateStatusLastAgent(s) ==
    LET np == FirstIncomplete(s.phases)
    IN IF np # 0
       THEN [s EXCEPT !.phase = s.phases[np].number,
                      !.current_agent = s.phases[np].agent,
                      !.state = "pending"]
       ELSE [s EXCEPT !.state = "complete",
                      !.current_agent = s.phases[Len(s.phases)].agent]

UpdateStatus(s) ==
    LET np == FirstIncomplete(s.phases)
    IN IF np # 0
       THEN [s EXCEPT !.phase = s.phases[np].number,
                      !.current_agent = s.phases[np].agent,
                      !.state = "pending"]
       ELSE [s EXCEPT !.state = "complete", !.current_agent = "none"]

\* a slip that appends to whatever the log holds, the placeholder included
AddNotesAfterPlaceholder(log, k, agent, notes) ==
    IF notes = Empty THEN log
    ELSE IF log # Empty
         THEN log \o <<Blank, Entry(k, agent)>> \o notes
         ELSE <<Entry(k, agent)>> \o notes

AddNotes(log, k, agent, notes) ==
    IF notes = Empty THEN log
    ELSE IF log # Empty /\ log # <<Placeholder>>
         THEN log \o <<Blank, Entry(k, agent)>> \o notes
         ELSE <<Entry(k, agent)>> \o notes

\* the session that a successful call writes back (i: index of the phase found)
MarkedSession(s, i, k, notes) ==
    LET marked == [s EXCEPT !.phases = SetComplete(s.phases, i)]
        status == UpdateStatus(marked)
    IN [status EXCEPT !.work_log = AddNotes(s.work_log, k, s.phases[i].agent, notes)]

NoSession ==
    [name |-> "", phase |-> 0, total_phases |-> 0, current_agent |-> "",
     state |-> "unknown", user_request |-> Empty, phases |-> <<>>,
     work_log |-> Empty]

\* what a call returned: its arguments (k, notes) and the fields of its JSON
NoRet ==
    [op |-> "none", error |-> "", k |-> 0, notes |-> Empty,
     session |-> NoSession, success |-> FALSE,
     next_phase |-> 0, next_agent |-> "", all_complete |-> FALSE,
     description |-> "", depends_on |-> <<>>, user_request |-> Empty,
     complete |-> FALSE, completed_count |-> 0, total_count |-> 0,
     remaining |-> <<>>]

\* a slip that answers an absent file with an empty result instead of an error
NoSessionFileSilent(op) == [NoRet EXCEPT !.op = op]

NoSessionFile(op) == [NoRet EXCEPT !.op = op, !.error = "No session file found"]

\* a slip that lists every completed phase, whatever its number
CompleteAgentsAll(phases, n) ==
    LET Done(p) == p.complete
        S == SelectSeq(phases, Done)
    IN [i \in 1..Len(S) |-> S[i].agent]

CompleteAgentsBefore(phases, n) ==
    LET Done(p) == p.complete /\ p.number < n
        S == SelectSeq(phases, Done)
    IN [i \in 1..Len(S) |-> S[i].agent]

StatusResult(T) ==
    [NoRet EXCEPT !.op = "status", !.session = parse_session(T)]

NextPhaseResult(T) ==
    LET s == parse_session(T)
        i == FirstIncomplete(s.phases)
    IN IF i # 0
       THEN [NoRet EXCEPT !.op = "next",
                          !.next_phase = s.phases[i].number,
                          !.next_agent = s.phases[i].agent,
                          !.description = s.phases[i].description,
                          !.depends_on = CompleteAgentsBefore(s.phases, s.phases[i].number),
                          !.user_request = s.user_request]
       ELSE [NoRet EXCEPT !.op = "next", !.all_complete = TRUE]

\* the JSON a call returns for the decoded session s
MarkResult(s, k, notes) ==
    LET i == FindPhase(s.phases, k)
        w == MarkedSession(s, i, k, notes)
        np == FirstIncomplete(w.phases)
    IN IF i = 0
       THEN [NoRet EXCEPT !.op = "mark", !.k = k, !.notes = notes,
                          !.error = "Phase not found"]
       ELSE [NoRet EXCEPT !.op = "mark", !.k = k, !.notes = notes,
                          !.success = TRUE,
                          !.next_phase = IF np # 0 THEN w.phases[np].number ELSE 0,
                          !.next_agent = IF np # 0 THEN w.phases[np].agent ELSE "",
                          !.all_complete = (np = 0)]

\* a slip that writes the decoded session back before the lookup has failed
MarkWritesAlways(T, s, k, notes) ==
    LET i == FindPhase(s.phases, k)
    IN IF i = 0 THEN format_session(s)
       ELSE format_session(MarkedSession(s, i, k, notes))

\* the document on disk after the call: path.write_text runs only past the
\* early return of the for-else
MarkWrites(T, s, k, notes) ==
    LET i == FindPhase(s.phases, k)
    IN IF i = 0 THEN T ELSE format_session(MarkedSession(s, i, k, notes))

IsCompleteResult(T) ==
    LET s == parse_session(T)
        Done(p) == p.complete
        Open(p) == ~p.complete
        completed == SelectSeq(s.phases, Done)
        remaining == SelectSeq(s.phases, Open)
    IN [NoRet EXCEPT !.op = "is_complete",
                     !.complete = (Len(remaining) = 0),
                     !.completed_count = Len(completed),
                     !.total_count = Len(s.phases),
                     !.remaining = [i \in 1..Len(remaining) |->
                                      Item(remaining[i].number, remaining[i].agent)]]

(***************************************************************************)
(* The orchestration layer's readers (src/main.py).                        *)
(***************************************************************************)
parse_phases(T) ==
    LET IsPhase(l) == l.k = "phase"
        S == SelectSeq(T, IsPhase)
    IN [i \in 1..Len(S) |-> PhaseRecord(S[i])]

\* "State: complete" in content
SaysStateComplete(l) ==
    \/ l.k = "state" /\ l.a = "complete"
    \/ l.k = "text" /\ l.d = "State: complete"

is_session_complete(T) ==
    IF T = NoFile THEN FALSE
    ELSE IF \E i \in 1..Len(T) : SaysStateComplete(T[i]) THEN TRUE
    \* re.findall(r'\d+\. \[([x ])\]'): the boxes; only phase lines hold one
    ELSE LET boxes == parse_phases(T)
         IN boxes # <<>> /\ \A i \in 1..Len(boxes) : boxes[i].complete

get_current_phase(T) ==
    IF T = NoFile THEN 0
    ELSE FirstIncomplete(parse_phases(T))

(***************************************************************************)
(* The documents the operations start from.                                *)
(***************************************************************************)
Agents == {"a", "b"}

\* the user's request, one line read by input()
Requests == {<<Txt("build it")>>}

\* the session file the planner is told to write
PlannerDoc(agentOf, request) ==
    <<Title("s"), Blank,
      Sec("Status"), PhaseOf(1, Len(agentOf)), AgentLn(agentOf[1]),
      StateLn("pending"), Blank,
      Sec("User Request")>>
    \o request
    \o <<Blank, Sec("Phases")>>
    \o [n \in 1..Len(agentOf) |-> PhaseLn(n, FALSE, agentOf[n], "d")]
    \o <<Blank, Sec("Work Log"), Placeholder, Blank>>

PlannerDocs ==
    {PlannerDoc(agentOf, request) :
        agentOf \in UNION {[1..n -> Agents] : n \in 1..MaxPhases},
        request \in Requests}

\* Documents written or edited by hand: every block of the grammar may be
\* missing or empty, the status block may disagree with the flags, and the
\* phase list may hold checked, repeated, out-of-order and malformed lines.
HeaderBlocks ==
    {<<>>,
     <<Title("s"), Blank,
       Sec("Status"), PhaseOf(1, 2), AgentLn("a"), StateLn("pending"), Blank>>,
     <<Title("s"), Blank,
       Sec("Status"), PhaseOf(2, 2), AgentLn("b"), StateLn("complete"), Blank>>}

RequestBlocks ==
    {<<>>,
     <<Sec("User Request"), Blank>>,
     <<Sec("User Request"), Txt("build it"), Blank>>}

PhaseLists ==
    LET P1 == PhaseLn(1, FALSE, "a", "d")
        P1x == PhaseLn(1, TRUE, "a", "d")
        P2 == PhaseLn(2, FALSE, "b", "d")
        Todo == Item(3, "todo")
    IN {<<>>, <<P1>>, <<P1x>>, <<P1, P2>>, <<P1x, P2>>,
        <<P2, P1>>, <<P1, PhaseLn(1, FALSE, "b", "d")>>,
        <<Todo>>, <<Todo, P1>>, <<P1, Todo, P2>>,
        <<P1, Blank, P2>>, <<Blank, P1>>,
        <<P2, P1, PhaseLn(3, FALSE, "a", "d")>>}

PhaseBlocks == {<<>>} \cup {<<Sec("Phases")>> \o lines : lines \in PhaseLists}

WorkLogBlocks ==
    {<<>>,
     <<Blank, Sec("Work Log"), Placeholder>>,
     <<Blank, Sec("Work Log"), Entry(1, "a"), Txt("done")>>}

\* texts that end with a newline, and texts whose last line has none
TextDocs ==
    {header \o request \o phases \o log \o <<Blank>> :
        header \in HeaderBlocks, request \in RequestBlocks,
        phases \in PhaseBlocks, log \in WorkLogBlocks}
    \cup {<<Sec("User Request"), Txt("build it"), Blank>> \o phases :
            phases \in PhaseBlocks \ {<<>>}}

\* the notes an agent passes to session_mark_phase_complete
Notes ==
    {Empty,
     <<Txt("done")>>,
     <<Txt("done"), Sec("Summary"), Txt("all good")>>,
     <<Txt("State: complete")>>}

(***************************************************************************)
(* The tasks directory and archive_session (src/main.py).  tasks maps the  *)
(* name of every file that session-*.md matches, session-current.md apart, *)
(* to its content.                                                         *)
(***************************************************************************)
\* session-<n>.md ("num"), session-<n>-old.md ("numtail"), session-notes.md
\* ("word"): f.stem.split("-")[1] is the numeral n, or a word int() refuses
Name(kind, n) == [kind |-> kind, n |-> n]

EmptyDir == [nm \in {} |-> NoFile]

\* max_num over the files whose second part int() converts
MaxNum(dir) == Max({0} \cup {nm.n : nm \in {f \in DOMAIN dir : f.kind # "word"}})

\* a slip that numbers the new archive by the count of the archives
NextSlotByCount(dir) ==
    Name("num", Cardinality({f \in DOMAIN dir : f.kind # "word"}) + 1)

\* a slip that steps over the slots that calls under way have chosen
NextSlotReserved(dir) ==
    Name("num", Max({MaxNum(dir)} \cup
                    {proc[q].slot.n : q \in {r \in DOMAIN proc : proc[r].pc = "scanned"}})
                + 1)

NextSlot(dir) == Name("num", MaxNum(dir) + 1)

\* a slip that renames without the test for a current session
ArchiveMovesAlways(T, dir) ==
    [nm \in DOMAIN dir \cup {NextSlot(dir)} |->
        IF nm = NextSlot(dir) THEN T ELSE dir[nm]]

\* the directory after the call: session_path.rename(new_path) replaces
\* whatever new_path names
ArchiveMoves(T, dir) ==
    IF T = NoFile THEN dir
    ELSE [nm \in DOMAIN dir \cup {NextSlot(dir)} |->
            IF nm = NextSlot(dir) THEN T ELSE dir[nm]]

(***************************************************************************)
(* The project directory and the audit (src/audit.py).                     *)
(***************************************************************************)
\* A registry text is the list of its lines; a line names its shape (title,
\* heading '## <s>', prose, table row) and its text.
RLn(kind, s) == [kind |-> kind, s |-> s]
Heading(s) == RLn("heading", s)

ReviewNote == RLn("prose", "Review and customize the ownership matrix and routing table.")

\* re.IGNORECASE: the text in lower case
Fold(s) ==
    CASE s \in {"Agent Registry", "AGENT REGISTRY"} -> "agent registry"
      [] s \in {"Ownership Matrix", "OWNERSHIP MATRIX"} -> "ownership matrix"
      [] s \in {"Routing Table", "ROUTING TABLE"} -> "routing table"
      [] s = "Agents" -> "agents"
      [] OTHER -> s

\* the alternatives of the three patterns that occur in a line
Contains(l) ==
    IF l.kind = "heading"
    THEN (IF Fold(l.s) = "agents" THEN {"## agents"} ELSE {})
         \cup ({Fold(l.s)} \cap {"agent registry", "ownership matrix", "routing table"})
    ELSE IF l = ReviewNote THEN {"ownership matrix", "routing table"}
    ELSE {}

required_sections == <<"Agent Registry", "Ownership Matrix", "Routing Table">>

Pattern(section_name) ==
    CASE section_name = "Agent Registry" -> {"agent registry", "## agents"}
      [] section_name = "Ownership Matrix" -> {"ownership matrix"}
      [] section_name = "Routing Table" -> {"routing table"}

MissingIssue(section_name) ==
    CASE section_name = "Agent Registry" -> "Missing section: Agent Registry"
      [] section_name = "Ownership Matrix" -> "Missing section: Ownership Matrix"
      [] section_name = "Routing Table" -> "Missing section: Routing Table"

\* re.search(pattern, content, re.IGNORECASE)
Found(T, section_name) ==
    \E i \in 1..Len(T) : Contains(T[i]) \cap Pattern(section_name) # {}

validate_agents_md(T) ==
    LET Absent(section_name) == ~Found(T, section_name)
        miss == SelectSeq(required_sections, Absent)
    IN [ok |-> miss = <<>>,
        issues |-> [i \in 1..Len(miss) |-> MissingIssue(miss[i])]]

\* a discovered agent: name and description of its definition file
Descriptor(name) == [name |-> name, description |-> "d"]

\* a slip that makes the text depend on earlier calls: a line tells whether a
\* registry was generated before
generate_agents_md_stamped(agents) ==
    LET rows == [i \in 1..Len(agents) |-> RLn("row", agents[i].name)]
    IN <<RLn("title", "Project Agent System"),
         Heading("Agent Registry")>> \o rows
       \o <<Heading("Ownership Matrix"),
            RLn("prose", "Each agent has EXCLUSIVE ownership of specific file paths.")>> \o rows
       \o <<Heading("Routing Table")>> \o rows
       \o <<Heading("Dependency Graph"), Heading("Notes"),
            RLn("prose", IF \E q \in DOMAIN proc : proc[q].pc = "returned"
                         THEN "This AGENTS.md was regenerated by the orchestrator."
                         ELSE "This AGENTS.md was auto-generated by the orchestrator."),
            ReviewNote>>

generate_agents_md(agents) ==
    LET rows == [i \in 1..Len(agents) |-> RLn("row", agents[i].name)]
    IN <<RLn("title", "Project Agent System"),
         Heading("Agent Registry")>> \o rows
       \o <<Heading("Ownership Matrix"),
            RLn("prose", "Each agent has EXCLUSIVE ownership of specific file paths.")>> \o rows
       \o <<Heading("Routing Table")>> \o rows
       \o <<Heading("Dependency Graph"), Heading("Notes"),
            RLn("prose", "This AGENTS.md was auto-generated by the orchestrator."),
            ReviewNote>>

\* a slip that leaves the last required section out of the template
generate_minimal_without_routing ==
    <<RLn("title", "Project Agent System"),
      Heading("Agent Registry"), RLn("row", "(no domain agents defined)"),
      Heading("Ownership Matrix"), RLn("row", "(define domain agents)"),
      Heading("Adding Domain Agents"), Heading("Files I OWN:"),
      Heading("Files I NEVER touch:"), Heading("Notes"),
      RLn("prose", "This is a minimal template. Add domain-specific agents for your project.")>>

\* audit.py
generate_minimal_agents_md ==
    <<RLn("title", "Project Agent System"),
      Heading("Agent Registry"), RLn("row", "(no domain agents defined)"),
      Heading("Ownership Matrix"), RLn("row", "(define domain agents)"),
      Heading("Routing Table"), RLn("row", "(define routing rules)"),
      Heading("Adding Domain Agents"), Heading("Files I OWN:"),
      Heading("Files I NEVER touch:"), Heading("Notes"),
      RLn("prose", "This is a minimal template. Add domain-specific agents for your project.")>>

\* main.py
main_generate_minimal_agents_md ==
    <<RLn("title", "Project Agent System"),
      Heading("Agent Registry"), RLn("row", "(no agents defined yet)"),
      Heading("Ownership Matrix"), RLn("row", "(add agents first)"),
      Heading("Routing Table"), RLn("row", "(add routing rules)"),
      Heading("Adding Agents"), Heading("Files I OWN:"),
      Heading("Files I NEVER touch:"),
      RLn("prose", "Then run init again to regenerate this AGENTS.md.")>>

NoProject ==
    [claude_dir |-> FALSE, agents_dir |-> FALSE, tasks_dir |-> FALSE,
     agents_md |-> NoFile, agents |-> <<>>]

\* AuditResult; for a bare validation: agents_md_valid and issues
NoResult ==
    [op |-> "none", auto_fix |-> FALSE,
     has_claude_dir |-> FALSE, has_agents_dir |-> FALSE,
     has_agents_md |-> FALSE, agents_md_valid |-> FALSE,
     discovered_agents |-> <<>>, issues |-> <<>>, actions_taken |-> <<>>]

\* a slip that takes the presence of the registry for its validity
is_ready_unvalidated(r) == r.has_agents_dir /\ r.has_agents_md

\* AuditResult.is_ready
is_ready(r) == r.has_agents_dir /\ r.agents_md_valid

\* "AGENTS.md" in i
NamesAgentsMd(i) == i = "AGENTS.md not found"

\* the AuditResult that audit_project returns for the project p
AuditResult(p, auto_fix) ==
    LET has_md == p.agents_md # NoFile
        v == validate_agents_md(p.agents_md)
        valid == has_md /\ v.ok
        found == IF has_md THEN v.issues ELSE <<"AGENTS.md not found">>
        regen == auto_fix /\ (~has_md \/ ~valid)
        Kept(i) == ~NamesAgentsMd(i)
    IN [op |-> "audit", auto_fix |-> auto_fix,
        has_claude_dir |-> p.claude_dir \/ auto_fix,
        has_agents_dir |-> p.agents_dir \/ auto_fix,
        has_agents_md |-> has_md \/ regen,
        agents_md_valid |-> valid \/ regen,
        discovered_agents |-> IF p.agents_dir THEN p.agents ELSE <<>>,
        issues |-> IF regen THEN SelectSeq(found, Kept) ELSE found,
        actions_taken |->
            (IF auto_fix /\ ~p.claude_dir THEN <<"Created .claude/ directory">> ELSE <<>>)
            \o (IF auto_fix /\ ~p.agents_dir THEN <<"Created .claude/agents/ directory">> ELSE <<>>)
            \o (IF auto_fix /\ ~p.tasks_dir THEN <<"Created .claude/tasks/ directory">> ELSE <<>>)
            \o (IF ~regen THEN <<>>
                ELSE IF p.agents_dir /\ p.agents # <<>>
                     THEN <<"Generated AGENTS.md from discovered agents">>
                     ELSE <<"Created minimal AGENTS.md template">>)]

\* a slip that regenerates the registry whenever auto_fix is set
AuditFixesAlways(p, auto_fix) ==
    IF ~auto_fix THEN p
    ELSE [p EXCEPT !.claude_dir = TRUE, !.agents_dir = TRUE, !.tasks_dir = TRUE,
                   !.agents_md =
                       IF p.agents_dir /\ p.agents # <<>>
                       THEN generate_agents_md(p.agents)
                       ELSE generate_minimal_agents_md]

\* the project directory after audit_project
AuditFixes(p, auto_fix) ==
    LET has_md == p.agents_md # NoFile
        regen == auto_fix /\ (~has_md \/ ~validate_agents_md(p.agents_md).ok)
    IN IF ~auto_fix THEN p
       ELSE [p EXCEPT !.claude_dir = TRUE, !.agents_dir = TRUE, !.tasks_dir = TRUE,
                      !.agents_md =
                          IF ~regen THEN @
                          ELSE IF p.agents_dir /\ p.agents # <<>>
                               THEN generate_agents_md(p.agents)
                               ELSE generate_minimal_agents_md]

(***************************************************************************)
(* Processes.  run holds the position and the local variables of            *)
(* run_orchestration (src/main.py); proc holds, for each of two concurrent  *)
(* callers of an operation, its position and its local variables.           *)
(***************************************************************************)
\* max_iterations: None, or the integer given with -n
None == [given |-> FALSE, n |-> 0]
Limit(n) == [given |-> TRUE, n |-> n]

\* start: the session file as print_session_status reads it before the loop
NoRun ==
    [pc |-> "idle", max_iterations |-> None, new_session |-> FALSE,
     content |-> NoFile, iteration |-> 0,
     archived |-> FALSE, planned |-> FALSE, sessions |-> 0, start |-> NoFile]

Procs == {1, 2}

NoCall ==
    [pc |-> "idle", k |-> 0, notes |-> Empty, content |-> NoFile,
     session |-> NoSession, slot |-> Name("num", 0), agents |-> <<>>,
     text |-> NoFile, ret |-> NoRet]

NoProcs == [p \in Procs |-> NoCall]

(***************************************************************************)
(* The state machine.                                                      *)
(***************************************************************************)
Init ==
    /\ file = NoFile
    /\ origin = "none"
    /\ ret = NoRet
    /\ nlog = 0
    /\ tasks = EmptyDir
    /\ project = NoProject
    /\ result = NoResult
    /\ run = NoRun
    /\ proc = NoProcs

\* the planning session creates the session file
run_planning_session ==
    /\ file = NoFile
    /\ file' \in PlannerDocs
    /\ origin' = "planner"
    /\ ret' = [NoRet EXCEPT !.op = "plan"]
    /\ UNCHANGED <<nlog, tasks, project, result, run, proc>>

\* a session file that was written or edited by hand is found on disk
edit_by_hand ==
    /\ file = NoFile
    /\ file' \in TextDocs
    /\ origin' = "text"
    /\ ret' = [NoRet EXCEPT !.op = "edit"]
    /\ UNCHANGED <<nlog, tasks, project, result, run, proc>>

\* a slip that saves the decoded session back while reading the status
session_get_status_saves ==
    /\ ret' = IF file = NoFile THEN NoSessionFile("status") ELSE StatusResult(file)
    /\ file' = IF file = NoFile THEN file ELSE format_session(parse_session(file))
    /\ UNCHANGED <<origin, nlog, tasks, project, result, run, proc>>

session_get_status ==
    /\ ret' = IF file = NoFile THEN NoSessionFile("status") ELSE StatusResult(file)
    /\ UNCHANGED <<file, origin, nlog, tasks, project, result, run, proc>>

session_get_next_phase ==
    /\ ret' = IF file = NoFile THEN NoSessionFile("next") ELSE NextPhaseResult(file)
    /\ UNCHANGED <<file, origin, nlog, tasks, project, result, run, proc>>

session_mark_phase_complete(k, notes) ==
    /\ notes # Empty => nlog < MaxNotes
    /\ IF file = NoFile
       THEN /\ ret' = [NoSessionFile("mark") EXCEPT !.k = k, !.notes = notes]
            /\ UNCHANGED <<file, nlog>>
       ELSE \E s \in {parse_session(file)} :
               /\ ret' = MarkResult(s, k, notes)
               /\ file' = MarkWrites(file, s, k, notes)
               /\ nlog' = IF notes # Empty /\ FindPhase(s.phases, k) # 0
                          THEN nlog + 1 ELSE nlog
    /\ UNCHANGED <<origin, tasks, project, result, run, proc>>

session_is_complete ==
    /\ ret' = IF file = NoFile THEN NoSessionFile("is_complete") ELSE IsCompleteResult(file)
    /\ UNCHANGED <<file, origin, nlog, tasks, project, result, run, proc>>

Next ==
    \/ run_planning_session
    \/ edit_by_hand
    \/ session_get_status
    \/ session_get_next_phase
    \/ \E k \in 1..(MaxPhases + 1), notes \in Notes : session_mark_phase_complete(k, notes)
    \/ session_is_complete

Spec == Init /\ [][Next]_vars
(***************************************************************************)
(* parse_session as a call: int() refuses a numeral of more than 4300       *)
(* digits, and parse_session lets the ValueError through.                   *)
(***************************************************************************)
\* a 'Phase: X of Y' line whose X is written with more digits than int() takes
LongPhaseOf(p, t) == [PhaseOf(p, t) EXCEPT !.d = "long"]

\* int(m.group(1)) raises: the first 'Phase: X of Y' line of the Status block
IntTooLong(T) ==
    LET IsPhaseOf(l) == l.k = "phaseof"
        po == SelectSeq(SectionRun(T, "Status", IsBullet), IsPhaseOf)
    IN po # <<>> /\ po[1].d = "long"

ParseResult(T) ==
    IF IntTooLong(T)
    THEN [NoRet EXCEPT !.op = "parse", !.error = "ValueError"]
    ELSE [NoRet EXCEPT !.op = "parse", !.session = parse_session(T)]

\* texts with such a line, inside and outside the Status block
LongDocs ==
    {head \o <<Sec("User Request"), Txt("build it"), Blank>> \o phases \o <<Blank>> :
        head \in {<<Title("s"), Blank, Sec("Status"), LongPhaseOf(1, 2),
                    AgentLn("a"), StateLn("pending"), Blank>>,
                  <<Sec("Status"), PhaseOf(1, 2), LongPhaseOf(1, 2), Blank>>,
                  <<LongPhaseOf(1, 2), Blank>>},
        phases \in PhaseBlocks}

ParseInputs == PlannerDocs \cup TextDocs \cup LongDocs

load_text ==
    /\ file = NoFile
    /\ file' \in ParseInputs
    /\ origin' = "text"
    /\ UNCHANGED <<ret, nlog, tasks, project, result, run, proc>>

parse_text ==
    /\ file # NoFile
    /\ ret' = ParseResult(file)
    /\ UNCHANGED <<file, origin, nlog, tasks, project, result, run, proc>>

NextParse ==
    \/ load_text
    \/ parse_text

SpecParse == Init /\ [][NextParse]_vars

(***************************************************************************)
(* Archive and new-session cycles.                                         *)
(***************************************************************************)
\* the session files of successive sessions
ArchiveDocs == {PlannerDoc(<<a>>, <<Txt("build it")>>) : a \in Agents}

\* files put into the tasks directory by hand
HandNames == {Name("word", 0), Name("numtail", 2)}

ArchiveNames == {Name("num", n) : n \in 1..MaxArchive} \cup HandNames

\* planning mode of run_orchestration: a new current session file
start_session ==
    /\ file = NoFile
    /\ file' \in ArchiveDocs
    /\ origin' = "planner"
    /\ ret' = [NoRet EXCEPT !.op = "plan"]
    /\ UNCHANGED <<nlog, tasks, project, result, run, proc>>

\* a slip that copies the current session file instead of renaming it
archive_session_copies ==
    /\ MaxNum(tasks) < MaxArchive
    /\ tasks' = ArchiveMoves(file, tasks)
    /\ ret' = [NoRet EXCEPT !.op = "archive", !.success = (file # NoFile)]
    /\ UNCHANGED <<file, origin, nlog, project, result, run, proc>>

archive_session ==
    /\ MaxNum(tasks) < MaxArchive
    /\ tasks' = ArchiveMoves(file, tasks)
    /\ file' = NoFile
    \* success: the 'Archived:' line is printed
    /\ ret' = [NoRet EXCEPT !.op = "archive", !.success = (file # NoFile)]
    /\ UNCHANGED <<origin, nlog, project, result, run, proc>>

place_file(nm) ==
    /\ nm \notin DOMAIN tasks
    /\ tasks' = [f \in DOMAIN tasks \cup {nm} |-> IF f = nm THEN Empty ELSE tasks[f]]
    /\ ret' = [NoRet EXCEPT !.op = "edit"]
    /\ UNCHANGED <<file, origin, nlog, project, result, run, proc>>

remove_file(nm) ==
    /\ nm \in DOMAIN tasks
    /\ tasks' = [f \in DOMAIN tasks \ {nm} |-> tasks[f]]
    /\ ret' = [NoRet EXCEPT !.op = "edit"]
    /\ UNCHANGED <<file, origin, nlog, project, result, run, proc>>

NextArchive ==
    \/ start_session
    \/ archive_session
    \/ \E nm \in HandNames : place_file(nm)
    \/ \E nm \in ArchiveNames : remove_file(nm)

SpecArchive == Init /\ [][NextArchive]_vars

(***************************************************************************)
(* Audit, initialisation and the registry gate.                            *)
(***************************************************************************)
\* registry texts written by hand: any of the three sections may be missing,
\* headings may be in capitals or read '## Agents', and the closing note of
\* a generated registry may be left in place
RegistryDocs ==
    {<<RLn("title", "Project Agent System")>>
        \o SelectSeq(<<Heading("Agent Registry"), Heading("Ownership Matrix"),
                       Heading("Routing Table")>>,
                     LAMBDA h : h.s \in S)
        \o note :
        S \in SUBSET {"Agent Registry", "Ownership Matrix", "Routing Table"},
        note \in {<<>>, <<Heading("Notes"), ReviewNote>>}}
    \cup {<<RLn("title", "Project Agent System"), Heading("Agents")>>,
          <<RLn("title", "Project Agent System"), Heading("Agents"),
            Heading("OWNERSHIP MATRIX"), Heading("ROUTING TABLE")>>}

AgentLists == UNION {[1..n -> {Descriptor(a) : a \in Agents}] : n \in 0..MaxAgents}

make_dirs(agents_dir, tasks_dir) ==
    /\ ~project.claude_dir
    /\ project' = [project EXCEPT !.claude_dir = TRUE, !.agents_dir = agents_dir,
                                  !.tasks_dir = tasks_dir]
    /\ result' = [NoResult EXCEPT !.op = "edit"]
    /\ UNCHANGED <<file, origin, ret, nlog, tasks, run, proc>>

write_agents_md(T) ==
    /\ project.agents_dir
    /\ project' = [project EXCEPT !.agents_md = T]
    /\ result' = [NoResult EXCEPT !.op = "edit"]
    /\ UNCHANGED <<file, origin, ret, nlog, tasks, run, proc>>

add_agent_file(a) ==
    /\ project.agents_dir
    /\ Len(project.agents) < MaxAgents
    /\ project' = [project EXCEPT !.agents = Append(@, Descriptor(a))]
    /\ result' = [NoResult EXCEPT !.op = "edit"]
    /\ UNCHANGED <<file, origin, ret, nlog, tasks, run, proc>>

audit_project(auto_fix) ==
    /\ project' = AuditFixes(project, auto_fix)
    /\ result' = AuditResult(project, auto_fix)
    /\ UNCHANGED <<file, origin, ret, nlog, tasks, run, proc>>

\* init_command: directories, then the minimal template when there is no
\* agent file; with agent files the registry is written by the external
\* generator, which may write any text or none
init_command ==
    /\ LET has_md == project.agents_md # NoFile
           needs_generation == ~has_md \/ ~validate_agents_md(project.agents_md).ok
           dirs == [project EXCEPT !.claude_dir = TRUE, !.agents_dir = TRUE,
                                   !.tasks_dir = TRUE]
       IN IF ~needs_generation
          THEN /\ project' = dirs
               /\ result' = [NoResult EXCEPT !.op = "init"]
          ELSE IF ~project.agents_dir \/ project.agents = <<>>
          THEN /\ project' = [dirs EXCEPT !.agents_md = main_generate_minimal_agents_md]
               /\ result' = [NoResult EXCEPT !.op = "init",
                                 !.actions_taken = <<"Created minimal AGENTS.md template">>]
          ELSE /\ \E T \in RegistryDocs \cup {project.agents_md} :
                      project' = [dirs EXCEPT !.agents_md = T]
               /\ result' = [NoResult EXCEPT !.op = "init"]
    /\ UNCHANGED <<file, origin, ret, nlog, tasks, run, proc>>

\* step 1 of run_orchestration: the registry must exist and validate
check_registry ==
    /\ result' =
          IF project.agents_md = NoFile
          THEN [NoResult EXCEPT !.op = "gate", !.issues = <<"AGENTS.md not found">>]
          ELSE LET v == validate_agents_md(project.agents_md)
               IN [NoResult EXCEPT !.op = "validate", !.has_agents_md = TRUE,
                                   !.agents_md_valid = v.ok, !.issues = v.issues]
    /\ UNCHANGED <<file, origin, ret, nlog, tasks, project, run, proc>>

NextAudit ==
    \/ \E agents_dir \in BOOLEAN, tasks_dir \in BOOLEAN : make_dirs(agents_dir, tasks_dir)
    \/ \E T \in RegistryDocs : write_agents_md(T)
    \/ \E a \in Agents : add_agent_file(a)
    \/ \E auto_fix \in BOOLEAN : audit_project(auto_fix)
    \/ init_command
    \/ check_registry

SpecAudit == Init /\ [][NextAudit]_vars

(***************************************************************************)
(* run_orchestration (src/main.py): the registry gate, the handling of an   *)
(* existing session, planning mode and the main loop.  The agent of an      *)
(* execution session takes its steps, calls of the tool server, while the   *)
(* session runs.                                                           *)
(***************************************************************************)
\* a slip that lets a registry through because its file exists
RegistryGateExists(content) == content # NoFile

\* step 1: agents_md_path.exists() and is_valid
RegistryGate(content) == content # NoFile /\ validate_agents_md(content).ok

\* if max_iterations
Truthy(max_iterations) == max_iterations.given /\ max_iterations.n # 0

RunRegistries ==
    {generate_minimal_agents_md,
     <<RLn("title", "Project Agent System"), Heading("Agent Registry")>>}

\* the session file the planner writes for the request
RunDocs(user_request) ==
    {PlannerDoc([i \in 1..n |-> "a"], user_request) : n \in 1..MaxPhases}

Inputs == {Empty, <<Txt("build it")>>}

\* the values of -n: absent, or an integer
Limits == {None} \cup {Limit(n) : n \in 0..MaxIterations}

run_orchestration(max_iterations, new_session) ==
    /\ run.pc \in {"idle", "done"}
    /\ LET content == project.agents_md
           call == [NoRun EXCEPT !.max_iterations = max_iterations,
                                 !.new_session = new_session,
                                 !.content = content]
       IN IF RegistryGate(content)
          THEN /\ run' = [call EXCEPT !.pc = "session"]
               /\ result' = AuditResult(project, FALSE)
          ELSE /\ run' = [call EXCEPT !.pc = "done"]
               /\ UNCHANGED result
    /\ UNCHANGED <<file, origin, ret, nlog, tasks, project, proc>>

\* a slip that starts over, as 'new' does, whenever the session is complete
handle_session_restarts_complete ==
    /\ run.pc = "session"
    /\ LET archive == (run.new_session \/ is_session_complete(file)) /\ file # NoFile
           session_exists == file # NoFile /\ ~archive
       IN /\ archive => MaxNum(tasks) < MaxRunArchive
          /\ tasks' = IF archive THEN ArchiveMoves(file, tasks) ELSE tasks
          /\ file' = IF archive THEN NoFile ELSE file
          /\ run' = [run EXCEPT
                        !.archived = archive,
                        !.pc = IF session_exists /\ is_session_complete(file)
                               THEN "done"
                               ELSE IF ~session_exists THEN "planning"
                               ELSE "loop"]
    /\ UNCHANGED <<origin, ret, nlog, project, result, proc>>

\* step 3, up to the choice between return, planning mode and execution
handle_session ==
    /\ run.pc = "session"
    /\ LET archive == run.new_session /\ file # NoFile
           session_exists == file # NoFile /\ ~archive
       IN /\ archive => MaxNum(tasks) < MaxRunArchive
          /\ tasks' = IF archive THEN ArchiveMoves(file, tasks) ELSE tasks
          /\ file' = IF archive THEN NoFile ELSE file
          /\ run' = [run EXCEPT
                        !.archived = archive,
                        !.pc = IF session_exists /\ is_session_complete(file)
                               THEN "done"
                               ELSE IF ~session_exists THEN "planning"
                               ELSE "loop"]
    /\ UNCHANGED <<origin, ret, nlog, project, result, proc>>

\* planning mode: the request is read; the planning session may or may not
\* leave a session file
planning_mode(user_request, written) ==
    /\ run.pc = "planning"
    /\ written \in RunDocs(user_request) \cup {NoFile}
    /\ IF user_request = Empty
       THEN /\ run' = [run EXCEPT !.pc = "done"]
            /\ UNCHANGED <<file, origin>>
       ELSE /\ run' = [run EXCEPT !.planned = TRUE,
                                  !.pc = IF written = NoFile THEN "done" ELSE "loop"]
            /\ file' = written
            /\ origin' = IF written = NoFile THEN origin ELSE "planner"
    /\ UNCHANGED <<ret, nlog, tasks, project, result, proc>>

\* the head of the main loop, up to the start of an execution session
loop_head ==
    /\ run.pc = "loop"
    /\ run.iteration <= MaxIterations
    /\ LET iteration == run.iteration + 1
           pass == [run EXCEPT !.iteration = iteration,
                               !.start = IF run.iteration = 0 THEN file ELSE @]
       IN run' =
            IF Truthy(run.max_iterations) /\ iteration > run.max_iterations.n
            THEN [pass EXCEPT !.pc = "done"]
            ELSE IF is_session_complete(file)
            THEN [pass EXCEPT !.pc = "done"]
            ELSE [pass EXCEPT !.pc = "agent", !.sessions = @ + 1]
    /\ UNCHANGED <<file, origin, ret, nlog, tasks, project, result, proc>>

\* the agent of the running session marks a phase complete
agent_marks(k) ==
    /\ run.pc = "agent"
    /\ session_mark_phase_complete(k, Empty)

\* the execution session ends; the loop continues
session_ends ==
    /\ run.pc = "agent"
    /\ run' = [run EXCEPT !.pc = "loop"]
    /\ UNCHANGED <<file, origin, ret, nlog, tasks, project, result, proc>>

NextRun ==
    \/ make_dirs(TRUE, TRUE)
    \/ \E T \in RunRegistries : write_agents_md(T)
    \/ \E max_iterations \in Limits, new_session \in BOOLEAN :
          run_orchestration(max_iterations, new_session)
    \/ handle_session
    \/ \E user_request \in Inputs, written \in RunDocs(<<Txt("build it")>>) \cup {NoFile} :
          planning_mode(user_request, written)
    \/ loop_head
    \/ \E k \in 1..MaxPhases : agent_marks(k)
    \/ session_ends

SpecRun == Init /\ [][NextRun]_vars

(***************************************************************************)
(* The main loop when every execution session does its work: the agent of  *)
(* the session asks the tool server for the next phase, marks it complete  *)
(* and ends, and nothing else writes the session file.  The session file   *)
(* is the planner's or one written by hand.                                *)
(***************************************************************************)
\* one execution session: session_get_next_phase, then
\* session_mark_phase_complete(phase_number, '') when a phase is returned
agent_completes_current ==
    /\ run.pc = "agent"
    /\ LET next == NextPhaseResult(file)
           s == parse_session(file)
       IN IF next.all_complete
          THEN /\ ret' = next
               /\ UNCHANGED file
          ELSE /\ ret' = MarkResult(s, next.next_phase, Empty)
               /\ file' = MarkWrites(file, s, next.next_phase, Empty)
    /\ run' = [run EXCEPT !.pc = "loop"]
    /\ UNCHANGED <<origin, nlog, tasks, project, result, proc>>

NextProgress ==
    \/ make_dirs(TRUE, TRUE)
    \/ \E T \in RunRegistries : write_agents_md(T)
    \/ run_planning_session
    \/ edit_by_hand
    \/ \E max_iterations \in Limits : run_orchestration(max_iterations, FALSE)
    \/ handle_session
    \/ \E user_request \in Inputs, written \in RunDocs(<<Txt("build it")>>) \cup {NoFile} :
          planning_mode(user_request, written)
    \/ loop_head
    \/ agent_completes_current

SpecProgress == Init /\ [][NextProgress]_vars

(***************************************************************************)
(* Two processes that call session_mark_phase_complete on one document.     *)
(* A call reads the file (path.read_text) and, as a later step, writes it   *)
(* (path.write_text); the steps of the two calls interleave freely.         *)
(***************************************************************************)
\* the documents the calls find: hand-written ones with a request, an empty
\* request and none, the planner's, and what the tool has written from any
\* of them by marks made one at a time
WriterDocs ==
    LET Marks[n \in 0..MaxPhases] ==
            IF n = 0
            THEN PlannerDocs \cup
                 {request \o <<Sec("Phases"), PhaseLn(1, FALSE, "a", "d"),
                               PhaseLn(2, FALSE, "b", "d"), Blank>> :
                     request \in RequestBlocks}
            ELSE Marks[n - 1] \cup
                 {MarkWrites(T, parse_session(T), k, Empty) :
                     T \in Marks[n - 1], k \in 1..MaxPhases}
    IN Marks[MaxPhases]

\* origin: "planner" for the planner's documents and their rewrites, "tool"
\* for the tool's rewrites of a hand-written document, "text" for the latter
open_session(T) ==
    /\ file = NoFile
    /\ file' = T
    /\ origin' = IF T[1] = Title("s") THEN "planner"
                 ELSE IF T[1].k = "title" THEN "tool"
                 ELSE "text"
    /\ UNCHANGED <<ret, nlog, tasks, project, result, run, proc>>

\* lines 165-170: the call reads and decodes the document
mark_load(p, k, notes) ==
    /\ proc[p].pc = "idle"
    /\ proc' = [proc EXCEPT ![p] =
                  IF file = NoFile
                  THEN [@ EXCEPT !.pc = "returned", !.k = k, !.notes = notes,
                                 !.ret = [NoSessionFile("mark") EXCEPT !.k = k, !.notes = notes]]
                  ELSE [@ EXCEPT !.pc = "loaded", !.k = k, !.notes = notes,
                                 !.content = file,
                                 !.session = parse_session(file)]]
    /\ UNCHANGED <<file, origin, ret, nlog, tasks, project, result, run>>

\* lines 172-214: the call changes its copy, writes it and returns
mark_save(p) ==
    /\ proc[p].pc = "loaded"
    /\ file' = MarkWrites(file, proc[p].session, proc[p].k, proc[p].notes)
    /\ proc' = [proc EXCEPT ![p] =
                  [@ EXCEPT !.pc = "returned",
                            !.ret = MarkResult(proc[p].session, proc[p].k,
                                               proc[p].notes)]]
    /\ UNCHANGED <<origin, ret, nlog, tasks, project, result, run>>

NextWriters ==
    \/ \E T \in WriterDocs : open_session(T)
    \/ \E p \in Procs, k \in 1..(MaxPhases + 1), notes \in {Empty, <<Txt("done")>>} :
          mark_load(p, k, notes)
    \/ \E p \in Procs : mark_save(p)

SpecWriters == Init /\ [][NextWriters]_vars

(***************************************************************************)
(* Calls of the two registry generators (src/audit.py), by two callers and  *)
(* at any moment between the audits that change the project directory.      *)
(***************************************************************************)
generate_call(p, agents) ==
    /\ proc' = [proc EXCEPT ![p] =
                  [NoCall EXCEPT !.pc = "returned",
                                 !.ret = [NoRet EXCEPT !.op = "generate_agents_md"],
                                 !.agents = agents,
                                 !.text = generate_agents_md(agents)]]
    /\ UNCHANGED <<file, origin, ret, nlog, tasks, project, result, run>>

generate_minimal_call(p) ==
    /\ proc' = [proc EXCEPT ![p] =
                  [NoCall EXCEPT !.pc = "returned",
                                 !.ret = [NoRet EXCEPT !.op = "generate_minimal_agents_md"],
                                 !.text = generate_minimal_agents_md]]
    /\ UNCHANGED <<file, origin, ret, nlog, tasks, project, result, run>>

NextGenerate ==
    \/ \E p \in Procs, agents \in AgentLists : generate_call(p, agents)
    \/ \E p \in Procs : generate_minimal_call(p)
    \/ \E agents_dir \in BOOLEAN, tasks_dir \in BOOLEAN : make_dirs(agents_dir, tasks_dir)
    \/ \E a \in Agents : add_agent_file(a)
    \/ \E auto_fix \in BOOLEAN : audit_project(auto_fix)

SpecGenerate == Init /\ [][NextGenerate]_vars

(***************************************************************************)
(* Two processes that call archive_session.  A call scans the tasks         *)
(* directory for the next number and, as a later step, renames the current  *)
(* session file.                                                           *)
(***************************************************************************)
\* lines 427-446: exists, glob, max_num, new_path
archive_scan(p) ==
    /\ proc[p].pc \in {"idle", "returned"}
    /\ MaxNum(tasks) < MaxArchive
    /\ proc' = [proc EXCEPT ![p] =
                  IF file = NoFile
                  THEN [NoCall EXCEPT !.pc = "returned",
                                      !.ret = [NoRet EXCEPT !.op = "archive"]]
                  ELSE [NoCall EXCEPT !.pc = "scanned", !.slot = NextSlot(tasks)]]
    /\ UNCHANGED <<file, origin, ret, nlog, tasks, project, result, run>>

\* line 447: session_path.rename(new_path) raises FileNotFoundError when the
\* current session file is gone, and replaces whatever new_path names
archive_rename(p) ==
    /\ proc[p].pc = "scanned"
    /\ IF file = NoFile
       THEN /\ proc' = [proc EXCEPT ![p] =
                          [@ EXCEPT !.pc = "returned",
                                    !.ret = [NoRet EXCEPT !.op = "archive",
                                                          !.error = "FileNotFoundError"]]]
            /\ UNCHANGED <<file, tasks>>
       ELSE /\ tasks' = [nm \in DOMAIN tasks \cup {proc[p].slot} |->
                           IF nm = proc[p].slot THEN file ELSE tasks[nm]]
            /\ file' = NoFile
            /\ proc' = [proc EXCEPT ![p] =
                          [@ EXCEPT !.pc = "returned",
                                    !.ret = [NoRet EXCEPT !.op = "archive",
                                                          !.success = TRUE]]]
    /\ UNCHANGED <<origin, ret, nlog, project, result, run>>

NextArchivers ==
    \/ start_session
    \/ \E p \in Procs : archive_scan(p)
    \/ \E p \in Procs : archive_rename(p)

SpecArchivers == Init /\ [][NextArchivers]_vars

(***************************************************************************)
(* The read operations: the three reading tools of the tool server and the  *)
(* two readers of the orchestration layer, on the current document, with an *)
(* archived document beside it.                                             *)
(***************************************************************************)
\* main.is_session_complete(project), as the main loop calls it
call_is_session_complete ==
    /\ ret' = [NoRet EXCEPT !.op = "main_is_session_complete",
                            !.complete = is_session_complete(file)]
    /\ UNCHANGED <<file, origin, nlog, tasks, project, result, run, proc>>

\* main.get_current_phase(project): the first incomplete phase, or None
call_get_current_phase ==
    /\ LET phases == IF file = NoFile THEN <<>> ELSE parse_phases(file)
           i == get_current_phase(file)
       IN ret' = IF i = 0
                 THEN [NoRet EXCEPT !.op = "main_get_current_phase"]
                 ELSE [NoRet EXCEPT !.op = "main_get_current_phase",
                                    !.next_phase = phases[i].number,
                                    !.next_agent = phases[i].agent,
                                    !.description = phases[i].description]
    /\ UNCHANGED <<file, origin, nlog, tasks, project, result, run, proc>>

\* the planner's first session is archived as it was planned, as 'new' does
archive_first_session ==
    /\ origin = "planner"
    /\ ret.op = "plan"
    /\ tasks = EmptyDir
    /\ archive_session

\* the request the user typed, shaped like a phase line, is written into the
\* session file by the planner
plan_phase_shaped_request ==
    /\ file = NoFile
    /\ file' \in RunDocs(<<PhaseLn(1, FALSE, "b", "d")>>)
    /\ origin' = "planner"
    /\ ret' = [NoRet EXCEPT !.op = "plan"]
    /\ UNCHANGED <<nlog, tasks, project, result, run, proc>>

\* an agent's notes hold a line shaped like a phase
mark_with_phase_shaped_notes(k) ==
    /\ origin = "planner"
    /\ session_mark_phase_complete(k, <<PhaseLn(k, FALSE, "b", "d")>>)

NextRead ==
    \/ run_planning_session
    \/ plan_phase_shaped_request
    \/ \E k \in 1..MaxPhases : mark_with_phase_shaped_notes(k)
    \/ edit_by_hand
    \/ archive_first_session
    \/ session_get_status
    \/ session_get_next_phase
    \/ session_is_complete
    \/ call_is_session_complete
    \/ call_get_current_phase

SpecRead == Init /\ [][NextRead]_vars

(***************************************************************************)
(* Properties.                                                             *)
(***************************************************************************)
ToolOps == {"status", "next", "mark", "is_complete"}
Marked == ret.op = "mark" /\ ret.success
Marked_next == ret'.op = "mark" /\ ret'.success
AllFlagsSet(phases) == \A i \in 1..Len(phases) : phases[i].complete
HoldsEntries(log) == log # Empty /\ log # <<Placeholder>>

\* C1: round-trip law: every session decoded from the document on disk (any
\* text, then any sequence of successful session_mark_phase_complete calls) is
\* decoded again unchanged from its own encoding, in every field, also when
\* its work log or user request is empty.
C1_RoundTrip ==
    file # NoFile =>
        LET s == parse_session(file)
        IN parse_session(format_session(s)) = s

\* C2: monotonic completion: a phase whose flag is true in the persisted
\* document is the same phase, with its flag true, in every later persisted
\* state of that document, whatever public operation runs.
C2_Monotonic ==
    [][file # NoFile =>
        LET p == parse_session(file).phases
            q == parse_session(file').phases
        IN \A i \in 1..Len(p) :
              p[i].complete =>
                 /\ i <= Len(q)
                 /\ q[i].number = p[i].number
                 /\ q[i].complete]_vars

C2_Witness ==
    /\ origin = "planner"
    /\ Marked
    /\ Len(parse_session(file).phases) = 2
    /\ AllFlagsSet(parse_session(file).phases)

\* C3: next-phase consistency: after a successful session_mark_phase_complete,
\* session_get_next_phase returns the lowest-numbered phase whose flag is false,
\* or all_complete when there is none, and the next_phase the mark call
\* returned names that same phase.
C3_NextPhaseConsistent ==
    Marked =>
        LET phases == parse_session(file).phases
            open == {i \in 1..Len(phases) : ~phases[i].complete}
            g == NextPhaseResult(file)
        IN IF open = {}
           THEN g.all_complete /\ ret.all_complete
           ELSE /\ ~g.all_complete
                /\ g.next_phase = Min({phases[i].number : i \in open})
                /\ ~ret.all_complete
                /\ ret.next_phase = g.next_phase

\* C4: a successful session_mark_phase_complete(k, notes) leaves phase k's flag
\* true in the persisted document; if an incomplete phase remains, the
\* persisted phase number and current agent are those of the first incomplete
\* phase and the state is pending; otherwise the state is complete and the
\* current agent is none.
C4_MarkPostcondition ==
    Marked =>
        LET s == parse_session(file)
            i == FindPhase(s.phases, ret.k)
            np == FirstIncomplete(s.phases)
        IN /\ i # 0
           /\ s.phases[i].complete
           /\ IF np # 0
              THEN /\ s.phase = s.phases[np].number
                   /\ s.current_agent = s.phases[np].agent
                   /\ s.state = "pending"
              ELSE /\ s.state = "complete"
                   /\ s.current_agent = "none"

\* C5: completion equivalence: in every document created by planning and then
\* changed only by session_mark_phase_complete calls (any phase numbers, any
\* notes), the persisted state reads complete exactly when the phase list is
\* non-empty with every flag true, and main.is_session_complete and the
\* session_is_complete tool both report that same value.
C5_CompletionEquivalence ==
    origin = "planner" =>
        LET s == parse_session(file)
            done == s.phases # <<>> /\ AllFlagsSet(s.phases)
        IN /\ (s.state = "complete") = done
           /\ is_session_complete(file) = done
           /\ IsCompleteResult(file).complete = done

\* C6: session_mark_phase_complete(k, notes) on a document with no phase
\* numbered k returns the 'Phase k not found' error and leaves the persisted
\* document unchanged, also when notes is non-empty.
C6_NotFoundLeavesDocument ==
    [][(/\ file # NoFile
        /\ ret'.op = "mark"
        /\ FindPhase(parse_session(file).phases, ret'.k) = 0)
       => (/\ ret'.error = "Phase not found"
           /\ ~ret'.success
           /\ file' = file)]_vars

C6_Witness ==
    /\ file # NoFile
    /\ ret.op = "mark"
    /\ ret.error = "Phase not found"
    /\ ret.notes # Empty
    /\ parse_session(file).phases # <<>>

\* C7: with no session document, each of the four tool operations returns the
\* 'No session file found' error and none of them creates a document.
C7_NoSessionFile ==
    [][(file = NoFile /\ ret'.op \in ToolOps)
       => (/\ ret'.error = "No session file found"
           /\ ~ret'.success
           /\ file' = NoFile)]_vars

C7_Witness ==
    /\ file = NoFile
    /\ ret.op = "mark"
    /\ ret.notes # Empty
    /\ ret.error = "No session file found"

\* C8: session invariant: in every document reached from a planner-created one
\* by session_mark_phase_complete calls, total_phases is the number of phases,
\* and 1 <= phase <= total_phases whenever the phase list is non-empty and the
\* state is not complete.
C8_SessionInvariant ==
    origin = "planner" =>
        LET s == parse_session(file)
        IN /\ s.total_phases = Len(s.phases)
           /\ (s.phases # <<>> /\ s.state # "complete")
                 => (1 <= s.phase /\ s.phase <= s.total_phases)

C8_Witness ==
    /\ origin = "planner"
    /\ Marked
    /\ parse_session(file).state = "pending"
    /\ parse_session(file).phase = 2

\* C9: a successful session_mark_phase_complete(k, notes) changes at most the
\* flag of one phase numbered k: the number of phases in the persisted
\* document, their order, every number, agent and description, the name and
\* the user request are unchanged.
C9_MarkFrame ==
    [][Marked_next =>
        LET a == parse_session(file)
            b == parse_session(file')
            changed == {i \in 1..Len(a.phases) :
                          i <= Len(b.phases)
                          /\ b.phases[i].complete # a.phases[i].complete}
        IN /\ Len(b.phases) = Len(a.phases)
           /\ \A i \in 1..Len(a.phases) :
                 /\ b.phases[i].number = a.phases[i].number
                 /\ b.phases[i].agent = a.phases[i].agent
                 /\ b.phases[i].description = a.phases[i].description
           /\ Cardinality(changed) <= 1
           /\ \A i \in changed : a.phases[i].number = ret'.k
           /\ b.name = a.name
           /\ b.user_request = a.user_request]_vars

\* C10: the work log is append-only: a successful session_mark_phase_complete
\* on a document whose work log holds entries leaves, with non-empty notes, a
\* work log that is the whole previous log followed by the new entry, and with
\* empty notes the previous log.
C10_WorkLogAppendOnly ==
    [][(Marked_next /\ HoldsEntries(parse_session(file).work_log)) =>
        LET a == parse_session(file)
            b == parse_session(file')
            i == FindPhase(a.phases, ret'.k)
        IN b.work_log =
              IF ret'.notes = Empty THEN a.work_log
              ELSE a.work_log
                   \o <<Blank, Entry(ret'.k, a.phases[i].agent)>>
                   \o ret'.notes]_vars

\* the '### Phase k (agent)' lines of a work log, in order
Entries(log) ==
    LET IsEntry(l) == l.k = "entry"
    IN SelectSeq(log, IsEntry)

\* C11: a successful session_mark_phase_complete(k, notes) with non-empty
\* notes adds exactly one work-log entry, naming phase k and the agent of
\* phase k; a log that was empty or only the placeholder becomes that entry
\* alone (entry line, then the notes), without the placeholder.
C11_EntryAdded ==
    [][(Marked_next /\ ret'.notes # Empty) =>
        LET a == parse_session(file)
            b == parse_session(file')
            i == FindPhase(a.phases, ret'.k)
            e == Entry(ret'.k, a.phases[i].agent)
        IN /\ Entries(b.work_log) = Append(Entries(a.work_log), e)
           /\ ~HoldsEntries(a.work_log) =>
                 /\ b.work_log[1] = e
                 /\ Len(b.work_log) >= 2
                 /\ b.work_log[2] = ret'.notes[1]
                 /\ \A j \in 1..Len(b.work_log) : b.work_log[j] # Placeholder]_vars

C11_Witness ==
    /\ origin = "planner"
    /\ Marked
    /\ ret.k = 2
    /\ ret.notes = <<Txt("done")>>
    /\ parse_session(file).work_log = <<Entry(2, "b"), Txt("done")>>
    /\ parse_session(file).current_agent = "a"

\* C12: for every session document (hand-edited ones, an empty phase list and
\* state complete with unchecked phases included), the session_is_complete
\* tool's 'complete' value and main.is_session_complete are both true exactly
\* when the phase list is non-empty with every flag true, or the state field
\* reads complete.
C12_IsCompleteDefinition ==
    file # NoFile =>
        LET s == parse_session(file)
            expected == \/ s.phases # <<>> /\ AllFlagsSet(s.phases)
                        \/ s.state = "complete"
        IN /\ IsCompleteResult(file).complete = expected
           /\ is_session_complete(file) = expected

C14_DecodeTotal ==
    ret.op = "parse" =>
        LET s == ret.session
            Has(kind) == \E i \in 1..Len(file) : file[i].k = kind
            HasSec(h) == \E i \in 1..Len(file) : file[i] = Sec(h)
        IN /\ ret.error = ""
           /\ ~Has("title") => s.name = ""
           /\ (~Has("phaseof") \/ ~HasSec("Status")) => (s.phase = 0 /\ s.total_phases = 0)
           /\ (~Has("agent") \/ ~HasSec("Status")) => s.current_agent = ""
           /\ (~Has("state") \/ ~HasSec("Status")) => s.state = "unknown"
           /\ ~HasSec("User Request") => s.user_request = Empty
           /\ (~Has("phase") \/ ~HasSec("Phases")) => s.phases = <<>>
           /\ ~HasSec("Work Log") => s.work_log = Empty

\* the agents of the phases at the indices idx, in document order
AgentsAt(phases, idx) ==
    [j \in 1..Cardinality(idx) |->
        phases[CHOOSE i \in idx : Cardinality({m \in idx : m < i}) = j - 1].agent]

\* C15: whenever session_get_next_phase returns a phase, its depends_on list
\* is exactly the agents of all phases already marked complete in the
\* document, also when a higher-numbered phase was marked complete before the
\* returned phase.
C15_DependsOnAllComplete ==
    (ret.op = "next" /\ ret.error = "" /\ ~ret.all_complete) =>
        LET phases == parse_session(file).phases
        IN ret.depends_on =
              AgentsAt(phases, {i \in 1..Len(phases) : phases[i].complete})

\* C15 as the code has it: depends_on lists, in document order, the agents of
\* the completed phases whose number is lower than the returned phase's; a
\* completed phase with a higher number is left out.
C15_DependsOnLowerComplete ==
    (ret.op = "next" /\ ret.error = "" /\ ~ret.all_complete) =>
        LET phases == parse_session(file).phases
        IN ret.depends_on =
              AgentsAt(phases, {i \in 1..Len(phases) :
                                  /\ phases[i].complete
                                  /\ phases[i].number < ret.next_phase})

C15_Witness ==
    /\ origin = "planner"
    /\ ret.op = "next"
    /\ ret.next_phase = 1
    /\ ret.depends_on = <<>>
    /\ Len(parse_session(file).phases) = 2
    /\ parse_session(file).phases[2].complete

\* the number a file of the tasks directory carries: session-<n>.md and
\* session-<n>-<tail>.md carry n, any other name carries none
Numbered(dir) == {nm \in DOMAIN dir : nm.kind \in {"num", "numtail"}}

\* C16: archive_session on a project with a current session document renames
\* it to session-(m+1), m the highest number among the existing archived
\* documents (0 if none), whatever gaps the numbering has; the slot names no
\* existing document, and every document archived before keeps its content.
C16_ArchiveUnique ==
    [][(file # NoFile /\ ret'.op = "archive") =>
        LET m == IF Numbered(tasks) = {} THEN 0
                 ELSE CHOOSE n \in {nm.n : nm \in Numbered(tasks)} :
                         \A nm \in Numbered(tasks) : nm.n <= n
            slot == Name("num", m + 1)
        IN /\ slot \notin DOMAIN tasks
           /\ DOMAIN tasks' = DOMAIN tasks \cup {slot}
           /\ tasks'[slot] = file
           /\ \A nm \in DOMAIN tasks : tasks'[nm] = tasks[nm]
           /\ file' = NoFile]_vars

C16_Witness ==
    /\ ret.op = "archive"
    /\ ret.success
    /\ file = NoFile
    /\ Name("num", 1) \notin DOMAIN tasks
    /\ Name("num", 2) \in DOMAIN tasks
    /\ Name("num", 3) \in DOMAIN tasks
    /\ tasks[Name("num", 2)] # tasks[Name("num", 3)]

\* C17: archive_session on a project with no current session document
\* reports no error and leaves the tasks directory unchanged, also right after
\* a successful archive.
C17_ArchiveNoOp ==
    [][(file = NoFile /\ ret'.op = "archive") =>
        /\ ret'.error = ""
        /\ tasks' = tasks
        /\ file' = NoFile]_vars

C17_Witness ==
    /\ ret.op = "archive"
    /\ ~ret.success
    /\ file = NoFile
    /\ DOMAIN tasks = {Name("num", 1)}

\* the issue entries that record a missing or invalid registry
RegistryIssues ==
    {"AGENTS.md not found"} \cup
    {MissingIssue(required_sections[i]) : i \in 1..Len(required_sections)}

\* a section is present when the text holds its heading
SectionPresent(T, section_name) ==
    \E i \in 1..Len(T) :
        /\ T[i].kind = "heading"
        /\ Fold(T[i].s) \in
              CASE section_name = "Agent Registry" -> {"agent registry", "agents"}
                [] section_name = "Ownership Matrix" -> {"ownership matrix"}
                [] section_name = "Routing Table" -> {"routing table"}

\* C18: validator completeness: for every subset of the three required
\* sections present in a registry text, validate_agents_md returns exactly one
\* 'Missing section' entry per absent section, all three checked, and ok is
\* true iff the list is empty.
C18_ValidatorComplete ==
    result.op = "validate" =>
        LET T == project.agents_md
            Absent(section_name) == ~SectionPresent(T, section_name)
            miss == SelectSeq(required_sections, Absent)
        IN /\ result.issues = [i \in 1..Len(miss) |-> MissingIssue(miss[i])]
           /\ result.agents_md_valid = (result.issues = <<>>)

\* C19: every registry produced by generate_agents_md (any list of
\* descriptors, the empty list included) and by either
\* generate_minimal_agents_md passes validate_agents_md with ok true and no
\* issue; so does the registry a regenerating audit or init leaves on disk.
C19_GeneratedValid ==
    LET Passes(T) == validate_agents_md(T) = [ok |-> TRUE, issues |-> <<>>]
    IN /\ \A agents \in AgentLists : Passes(generate_agents_md(agents))
       /\ Passes(generate_minimal_agents_md)
       /\ Passes(main_generate_minimal_agents_md)
       /\ (/\ result.op \in {"audit", "init"}
           /\ \E j \in 1..Len(result.actions_taken) :
                 result.actions_taken[j] \in
                    {"Generated AGENTS.md from discovered agents",
                     "Created minimal AGENTS.md template"})
             => Passes(project.agents_md)

C19_Witness ==
    /\ result.op = "audit"
    /\ result.actions_taken = <<"Created .claude/tasks/ directory",
                                "Generated AGENTS.md from discovered agents">>
    /\ Len(result.discovered_agents) = MaxAgents
    /\ project.agents_md = generate_agents_md(result.discovered_agents)

\* C20: after audit_project with auto_fix regenerates the registry, the
\* returned issue list holds neither 'AGENTS.md not found' nor any
\* 'Missing section' entry of the old registry.
C20_IssuesCleared ==
    (/\ result.op = "audit"
     /\ result.auto_fix
     /\ \E j \in 1..Len(result.actions_taken) :
           result.actions_taken[j] \in
              {"Generated AGENTS.md from discovered agents",
               "Created minimal AGENTS.md template"})
        => \A i \in 1..Len(result.issues) : result.issues[i] \notin RegistryIssues

\* the registry on disk passes validate_agents_md
RegistryValid(p) == p.agents_md # NoFile /\ validate_agents_md(p.agents_md).ok

\* C21: for both values of auto_fix, the AuditResult that audit_project
\* returns has is_ready true exactly when, at return, the agents directory
\* exists on disk and the registry on disk passes validate_agents_md; with
\* auto_fix the result is always ready.
C21_IsReady ==
    result.op = "audit" =>
        /\ is_ready(result) = (project.agents_dir /\ RegistryValid(project))
        /\ result.auto_fix => is_ready(result)

C21_Witness ==
    /\ result.op = "audit"
    /\ result.auto_fix
    /\ is_ready(result)
    /\ result.issues # <<>>
    /\ result.actions_taken = <<"Generated AGENTS.md from discovered agents">>
    /\ RegistryValid(project)

\* C22: audit_project returns a result also for an absent or invalid registry,
\* which it reports, and repairs only when asked: without auto_fix nothing on
\* disk changes; with auto_fix a registry that validates is left as it is, and
\* an absent or invalid one is replaced by the registry generated from the
\* discovered descriptors when there is at least one, by the minimal template
\* otherwise.
C22_RepairOnlyWhenAsked ==
    [][result'.op = "audit" =>
        /\ (~RegistryValid(project) /\ ~result'.auto_fix) =>
              (result'.issues # <<>> /\ ~result'.agents_md_valid)
        /\ ~result'.auto_fix => project' = project
        /\ (result'.auto_fix /\ RegistryValid(project)) =>
              project'.agents_md = project.agents_md
        /\ (result'.auto_fix /\ ~RegistryValid(project)) =>
              project'.agents_md =
                 IF result'.discovered_agents # <<>>
                 THEN generate_agents_md(result'.discovered_agents)
                 ELSE generate_minimal_agents_md]_vars

C22_Witness ==
    /\ result.op = "audit"
    /\ result.auto_fix
    /\ result.actions_taken = <<>>
    /\ Len(result.discovered_agents) = 1
    /\ project.agents_md =
          <<RLn("title", "Project Agent System"), Heading("Agents"),
            Heading("OWNERSHIP MATRIX"), Heading("ROUTING TABLE")>>

\* C23: registry gate: run_orchestration archives no session, enters no
\* planning and starts no execution session unless the registry existed and
\* validate_agents_md found it valid when the run started.
C23_RegistryGate ==
    (\/ run.pc \in {"session", "planning", "loop", "agent"}
     \/ run.archived
     \/ run.planned
     \/ run.sessions > 0)
        => (run.content # NoFile /\ validate_agents_md(run.content).ok)

C23_Witness ==
    /\ run.pc = "done"
    /\ run.new_session
    /\ run.content # NoFile
    /\ ~validate_agents_md(run.content).ok
    /\ file # NoFile
    /\ ~is_session_complete(file)
    /\ ~run.archived /\ ~run.planned /\ run.sessions = 0

\* C26: iteration bound: for every non-negative N given as max_iterations,
\* the main loop of run_orchestration starts at most N execution sessions.
C26_IterationBound ==
    run.max_iterations.given => run.sessions <= run.max_iterations.n

\* C24: with at most one writer at a time (the document on disk is still
\* the one the call read when the call writes), a successful
\* session_mark_phase_complete leaves its own phase's flag and every flag
\* that earlier calls left in the document, so that every successful call's
\* flag is present in the final document; only calls whose load-modify-save
\* steps interleave lose an update.
C24_SerialWritersKeepFlags ==
    [][\A p \in Procs :
          (/\ proc[p].pc = "loaded"
           /\ proc'[p].pc = "returned"
           /\ proc'[p].ret.success
           /\ file = proc[p].content)
          => LET a == parse_session(file).phases
                 b == parse_session(file').phases
             IN /\ \E j \in 1..Len(b) :
                      b[j].number = proc[p].k /\ b[j].complete
                /\ \A i \in 1..Len(a) :
                      a[i].complete =>
                         \E j \in 1..Len(b) :
                            b[j].number = a[i].number /\ b[j].complete]_vars

\* the lost update: both calls read the same document, both return success,
\* and the final document holds the flag of the second writer only
C24_LostUpdate ==
    /\ origin = "planner"
    /\ proc[1].pc = "returned" /\ proc[1].ret.success /\ proc[1].k = 1
    /\ proc[2].pc = "returned" /\ proc[2].ret.success /\ proc[2].k = 2
    /\ proc[1].content = proc[2].content
    /\ LET phases == parse_session(file).phases
       IN /\ Len(phases) = 2
          /\ ~phases[1].complete
          /\ phases[2].complete

C27_StatusMatchesFlags ==
    Marked =>
        LET s == parse_session(file)
            g == NextPhaseResult(file)
        IN ~g.all_complete =>
              /\ s.phase = g.next_phase
              /\ s.current_agent = g.next_agent

\* C28: archive_session is unsafe under two concurrent calls: a call that
\* scans the tasks directory while another call has scanned and not yet
\* renamed chooses the same slot session-(max+1); of two calls that hold one
\* slot, the second to rename fails on the vanished source, or, when a new
\* current document was created in between, replaces the other's archive, so
\* that the directory holds one document for the two archived.
C28_ArchiveRace ==
    [][\A p \in Procs, q \in Procs :
          /\ (/\ p # q
              /\ proc[q].pc = "scanned"
              /\ proc[q].slot \notin DOMAIN tasks
              /\ proc[p].pc # "scanned"
              /\ proc'[p].pc = "scanned")
             => proc'[p].slot = proc[q].slot
          /\ (proc[p].pc = "scanned" /\ proc'[p].pc = "returned")
             => IF file = NoFile
                THEN /\ proc'[p].ret.error = "FileNotFoundError"
                     /\ tasks' = tasks
                ELSE /\ proc'[p].ret.error = ""
                     /\ file' = NoFile
                     /\ DOMAIN tasks' = DOMAIN tasks \cup {proc[p].slot}
                     /\ tasks'[proc[p].slot] = file
                     /\ \A nm \in DOMAIN tasks \ {proc[p].slot} :
                           tasks'[nm] = tasks[nm]]_vars

C28_Witness ==
    /\ proc[1].pc = "returned" /\ proc[1].ret.success
    /\ proc[2].pc = "returned" /\ proc[2].ret.success
    /\ proc[1].slot = Name("num", 1)
    /\ proc[2].slot = Name("num", 1)
    /\ DOMAIN tasks = {Name("num", 1)}
    /\ file = NoFile

C30_ReadsLeaveDocuments ==
    [][ret'.op \in {"status", "next", "is_complete",
                    "main_is_session_complete", "main_get_current_phase"}
       => (file' = file /\ tasks' = tasks)]_vars

C30_Witness ==
    /\ ret.op = "main_get_current_phase"
    /\ ret.next_phase = 2
    /\ origin = "text"
    /\ file # NoFile
    /\ parse_session(format_session(parse_session(file))) # parse_session(file)
    /\ tasks # EmptyDir

(***************************************************************************)
(* C31: idempotence of completion.  On a document written by this system,  *)
(* a call session_mark_phase_complete(k, '') that follows a successful     *)
(* call for the same k succeeds and leaves the persisted document as the   *)
(* first call left it.                                                     *)
(***************************************************************************)
\* q is about to save a call for the phase p has marked, on the document p left
SecondCall(p, q) ==
    /\ p # q
    /\ origin \in {"planner", "tool"}
    /\ proc[p].pc = "returned" /\ proc[p].ret.success
    /\ file = MarkWrites(proc[p].content, proc[p].session, proc[p].k, proc[p].notes)
    /\ proc[q].pc = "loaded" /\ proc[q].content = file
    /\ proc[q].k = proc[p].k /\ proc[q].notes = Empty

\* C31: the second call succeeds and writes the document it read
C31_MarkIdempotent ==
    [][\A p, q \in Procs :
          (SecondCall(p, q) /\ proc'[q].pc = "returned")
          => /\ proc'[q].ret.success
             /\ file' = file]_vars

\* the second call has returned: the phase was open before the first call,
\* the first call left a work-log entry and did not complete the session
C31_Witness ==
    \E p, q \in Procs :
       /\ p # q
       /\ origin = "planner"
       /\ proc[p].pc = "returned" /\ proc[p].ret.success
       /\ proc[q].pc = "returned" /\ proc[q].ret.success
       /\ proc[q].k = proc[p].k /\ proc[q].notes = Empty /\ proc[p].notes # Empty
       /\ ~proc[p].session.phases[FindPhase(proc[p].session.phases, proc[p].k)].complete
       /\ ~proc[p].ret.all_complete
       /\ proc[q].content = MarkWrites(proc[p].content, proc[p].session,
                                       proc[p].k, proc[p].notes)
       /\ proc[q].content # proc[p].content
       /\ file = proc[q].content

(***************************************************************************)
(* C32: order independence of completion.  For two distinct phase numbers  *)
(* i and j that the document holds, and empty notes, marking i and then j  *)
(* leaves the same persisted document (flags, phase number, current agent, *)
(* state) as marking j and then i, also when the two calls complete the    *)
(* session.                                                                *)
(***************************************************************************)
\* p has marked i, then q has marked j on the document p left; the other
\* order is computed from the document p started from
C32_OrderIndependent ==
    \A p, q \in Procs :
       LET i == proc[p].k
           j == proc[q].k
           T == proc[p].content
           first == MarkWrites(T, parse_session(T), j, Empty)
           other == MarkWrites(first, parse_session(first), i, Empty)
       IN (/\ p # q /\ i # j
           /\ proc[p].pc = "returned" /\ proc[p].ret.success /\ proc[p].notes = Empty
           /\ proc[q].pc = "returned" /\ proc[q].ret.success /\ proc[q].notes = Empty
           /\ FindPhase(proc[p].session.phases, j) # 0
           /\ proc[q].content = MarkWrites(T, proc[p].session, i, Empty)
           /\ file = MarkWrites(proc[q].content, proc[q].session, j, Empty))
          => LET a == parse_session(file)
                 b == parse_session(other)
             IN /\ a.phases = b.phases
                /\ a.phase = b.phase
                /\ a.current_agent = b.current_agent
                /\ a.state = b.state

(***************************************************************************)
(* C33: the orchestration layer and the tool server agree on the current   *)
(* phase.  For every session document, main.get_current_phase returns the  *)
(* number and agent that session_get_next_phase returns, and None exactly  *)
(* when the tool reports all_complete.                                     *)
(***************************************************************************)
C33_CurrentPhaseAgrees ==
    (ret.op = "main_get_current_phase" /\ file # NoFile)
    => LET tool == NextPhaseResult(file)
       IN IF tool.all_complete
          THEN ret.next_phase = 0 /\ ret.next_agent = ""
          ELSE /\ ret.next_phase = tool.next_phase
               /\ ret.next_agent = tool.next_agent

(***************************************************************************)
(* C34: progress to completion.  When every execution session marks the   *)
(* then-current phase complete and nothing else writes the document, the   *)
(* main loop, begun on a document with n incomplete phases and run with    *)
(* max_iterations unlimited or greater than n, observes the session        *)
(* complete and ends after exactly n execution sessions, also when two     *)
(* phase lines carry the same number.  As properties of every finite run:  *)
(* the loop never starts more than n sessions, and when it has ended it    *)
(* has started exactly n.                                                  *)
(***************************************************************************)
\* the number of incomplete phases of the document the loop began on
Incomplete(T) ==
    LET phases == parse_session(T).phases
    IN Cardinality({i \in 1..Len(phases) : ~phases[i].complete})

\* C34: never more than n sessions, and exactly n once the loop has ended
C34_ProgressToCompletion ==
    LET n == Incomplete(run.start)
    IN (/\ run.iteration > 0
        /\ ~run.max_iterations.given \/ run.max_iterations.n > n)
       => /\ run.sessions <= n
          /\ run.pc = "done" => run.sessions = n

(***************************************************************************)
(* C35: a successful archive_session moves the document without altering   *)
(* it.  Afterwards no current session document exists, the new slot holds  *)
(* exactly the content the current document had, every document archived   *)
(* before is unchanged, and the number of stored session documents is the  *)
(* same as before.                                                         *)
(***************************************************************************)
C35_ArchiveMovesDocument ==
    [][(ret'.op = "archive" /\ ret'.success)
       => /\ file # NoFile
          /\ file' = NoFile
          /\ \E slot \in DOMAIN tasks' \ DOMAIN tasks :
                /\ DOMAIN tasks' = DOMAIN tasks \cup {slot}
                /\ slot.kind = "num"
                /\ tasks'[slot] = file
          /\ \A nm \in DOMAIN tasks : tasks'[nm] = tasks[nm]
          /\ Cardinality(DOMAIN tasks') = Cardinality(DOMAIN tasks) + 1]_vars

\* the third archive: it lies after a gap left by a removed archive, beside a
\* file placed by hand and an archive of another document
C35_Witness ==
    /\ ret.op = "archive" /\ ret.success
    /\ file = NoFile
    /\ Name("num", 1) \notin DOMAIN tasks
    /\ {Name("num", 2), Name("num", 3), Name("word", 0)} \subseteq DOMAIN tasks
    /\ tasks[Name("num", 2)] # tasks[Name("num", 3)]

(***************************************************************************)
(* C36: run_orchestration without new_session, on a project whose          *)
(* existing session is complete, starts no planning and no execution       *)
(* session and leaves the session document and the archives unchanged;     *)
(* only with new_session is the existing document, finished or not,        *)
(* archived and planning entered.                                          *)
(***************************************************************************)
C36_CompleteSessionStartsNothing ==
    [][(run.pc = "session" /\ run'.pc # "session" /\ file # NoFile)
       => /\ (~run.new_session /\ is_session_complete(file))
             => /\ run'.pc = "done"
                /\ ~run'.planned /\ run'.sessions = 0
                /\ file' = file /\ tasks' = tasks
          /\ ~run.new_session
             => /\ ~run'.archived /\ run'.pc # "planning"
                /\ file' = file /\ tasks' = tasks
          /\ run.new_session
             => /\ run'.archived /\ run'.pc = "planning"
                /\ file' = NoFile
                /\ \E slot \in DOMAIN tasks' \ DOMAIN tasks : tasks'[slot] = file]_vars

\* a second run, without new_session, has returned from step 3: the registry
\* let it pass, the session the first run completed is still in place
C36_Witness ==
    /\ run.pc = "done"
    /\ RegistryGate(run.content)
    /\ ~run.new_session
    /\ file # NoFile /\ is_session_complete(file)
    /\ Len(parse_session(file).phases) = 2
    /\ ~run.planned /\ ~run.archived
    /\ run.iteration = 0 /\ run.sessions = 0
    /\ tasks = EmptyDir

====
